---- MODULE Spec2Model ----
(***************************************************************************)
(* crashpad util/posix/spawn_subprocess.cc: SpawnSubprocess().             *)
(*                                                                         *)
(* Three processes take part: the Caller (the process that calls           *)
(* SpawnSubprocess), the Intermediate (the child of the first fork) and    *)
(* the Detached process (the grandchild that runs argv[0]).  Every process *)
(* executes the text of the same function; pc gives each one's position.   *)
(* Results of system calls that the function tests (fork, setsid,          *)
(* posix_spawn, execve, waitpid) are chosen nondeterministically.          *)
(***************************************************************************)
EXTENDS Integers, Sequences, FiniteSets

VARIABLES
    variant,    \* the build: which #if branch of lines 179-243 is compiled
    args,       \* the arguments of the call (argv[0], envp, preserve_fd, ...)
    proc,       \* the process table: one record per process
    result,     \* the value SpawnSubprocess returned in the Caller
    log,        \* what was logged (PLOG / LOG) during this call, in order
    trace,      \* the calls made so far in this call: who executed what
    previous    \* the preserve_fd of the Caller's earlier, completed calls

vars == <<variant, args, proc, result, log, trace, previous>>

----------------------------------------------------------------------------
\* Bounds and program constants

\* Highest descriptor number of the modelled descriptor tables.
MaxFd == 4

\* Number of calls the Caller makes one after the other.
MaxCalls == 2

\* Highest raw wait status the classification of lines 261-274 is applied to:
\* every value of the low byte, with exit codes 0 and 1.
MaxStatus == 511

STDERR_FILENO == 2
EXIT_SUCCESS == 0
\* Exit status of a posix_spawn child whose exec failed after posix_spawn
\* returned 0, and the signal abort() raises.
SpawnChildExecFailed == 127
SIGABRT == 6

FDs == 0..MaxFd
StdFds == 0..STDERR_FILENO

Caller == "Caller"
Intermediate == "Intermediate"
Detached == "Detached"
Procs == {Caller, Intermediate, Detached}
\* Parent of orphans ("its parent process ID becomes 1").
InitProc == "init"
\* Leader of the session the Caller was started in.
Shell == "shell"

Variants == {"apple", "posix", "android"}

\* argv[0]: an absolute path of an executable, a bare name found only on
\* PATH, and a path that names nothing.
Argv0s == {"/bin/true", "true", "/nonexistent/binary"}

----------------------------------------------------------------------------
\* Wait statuses (sys/wait.h encoding), as the Caller reads them

ExitedStatus(code) == (code % 256) * 256
SignaledStatus(sig, core) == sig + (IF core THEN 128 ELSE 0)

WTERMSIG(status) == status % 128
WIFEXITED(status) == WTERMSIG(status) = 0
WIFSIGNALED(status) == WTERMSIG(status) # 0 /\ WTERMSIG(status) # 127
WEXITSTATUS(status) == (status \div 256) % 256
WCOREDUMP(status) == (status \div 128) % 2 = 1

\* Lines 261-274: what the Caller logs for a status waitpid delivered.
Entry(p, severity, what, value, core) ==
    [p |-> p, severity |-> severity, what |-> what, value |-> value,
     core |-> core]

\* The comparison of line 271 inverted.
StatusWarnings_WarnsOnSuccess(p, status) ==
    IF WIFSIGNALED(status)
    THEN <<Entry(p, "WARNING", "terminated by signal", WTERMSIG(status),
                 WCOREDUMP(status))>>
    ELSE IF ~WIFEXITED(status)
    THEN <<Entry(p, "WARNING", "unknown termination", status, FALSE)>>
    ELSE IF WEXITSTATUS(status) = EXIT_SUCCESS
    THEN <<Entry(p, "WARNING", "exited with code", WEXITSTATUS(status),
                 FALSE)>>
    ELSE <<>>

\* The test of line 271 made first: the exit code is read before the status
\* is known to be one of a normal exit.
StatusWarnings_ExitCodeFirst(p, status) ==
    IF WEXITSTATUS(status) # EXIT_SUCCESS
    THEN <<Entry(p, "WARNING", "exited with code", WEXITSTATUS(status),
                 FALSE)>>
    ELSE IF WIFSIGNALED(status)
    THEN <<Entry(p, "WARNING", "terminated by signal", WTERMSIG(status),
                 WCOREDUMP(status))>>
    ELSE IF ~WIFEXITED(status)
    THEN <<Entry(p, "WARNING", "unknown termination", status, FALSE)>>
    ELSE <<>>

StatusWarnings(p, status) ==
    IF WIFSIGNALED(status)
    THEN <<Entry(p, "WARNING", "terminated by signal", WTERMSIG(status),
                 WCOREDUMP(status))>>
    ELSE IF ~WIFEXITED(status)
    THEN <<Entry(p, "WARNING", "unknown termination", status, FALSE)>>
    ELSE IF WEXITSTATUS(status) # EXIT_SUCCESS
    THEN <<Entry(p, "WARNING", "exited with code", WEXITSTATUS(status),
                 FALSE)>>
    ELSE <<>>

----------------------------------------------------------------------------
\* Program order: where a process continues after each step

\* Line 142 missing: the failed fork falls through to the waitpid.
AfterForkFailure_FallsThrough == "waitpid"

\* Line 140-143: a failed fork returns false at once.
AfterForkFailure == "returned"

\* The parent returning without the waitpid of line 254.
ParentAfterFork_NoWait == "returned"

\* The parent entering the block of the child: the test of line 145 lost.
ParentAfterFork_ChildBlock == "setsid"

\* pid > 0: the parent skips the block of lines 145-244 and waits.
ParentAfterFork == "waitpid"

\* Lines 148-150 missing: child_function is never called.
ChildAfterFork_SkipsHook(child_function) == "setsid"

\* pid == 0, lines 145-150: the child calls child_function when there is one.
ChildAfterFork(child_function) ==
    IF child_function THEN "child_function" ELSE "setsid"

\* The child leaving at once after the hook: lines 167-239 skipped.
AfterChildFunction_ExitsAtOnce == "_exit"

\* Line 167 follows the return of child_function.
AfterChildFunction == "setsid"

\* Lines 179-190 missing: the child of the first fork prunes and execs.
AfterSetsid_NoSecondFork(v) == IF v = "apple" THEN "posix_spawn" ELSE "close"

\* After setsid: the second fork (line 180), the file actions and posix_spawn
\* (lines 203-230), or CloseMultipleNowOrOnExec (line 218).
AfterSetsid(v) ==
    CASE v = "android" -> "fork2"
      [] v = "apple" -> "posix_spawn"
      [] OTHER -> "close"

\* setsid() called in the grandchild.
ChildAfterFork2_Setsid == "setsid"

\* Lines 185-194: after the second fork the parent exits, the child prunes.
ParentAfterFork2 == "_exit"
ChildAfterFork2 == "close"

\* Line 196 follows line 194; line 229 follows line 218.
AfterClose(v) == IF v = "android" THEN "execve" ELSE "posix_spawn"

\* Line 242 missing: after the spawn the child stays, waiting.
AfterPosixSpawn_Pause == "pause"

\* Line 242 follows a posix_spawn that returned 0.
AfterPosixSpawn == "_exit"

\* Line 257 returning false.
WaitFailureResult_False == "false"

\* Line 257: a failed waitpid is no failure of the function.
WaitFailureResult == "true"

----------------------------------------------------------------------------
\* Descriptors, environment and executable lookup

\* util/posix/close_multiple.h: every descriptor >= fd_min other than
\* preserve_fd is closed, at once or at the next exec.
CloseMultipleNowOrOnExec(r, fd_min, preserve_fd, mode) ==
    LET pruned == {fd \in r.fds : fd >= fd_min /\ fd # preserve_fd}
    IN  IF mode = "now"
        THEN [r EXCEPT !.fds = r.fds \ pruned,
                       !.cloexec = r.cloexec \ pruned]
        ELSE [r EXCEPT !.cloexec = r.cloexec \cup pruned]

\* CloseMultipleNowOrOnExec(preserve_fd + 1, preserve_fd): only the
\* descriptors above preserve_fd are pruned.
PruneDescriptors_AbovePreserved(r, preserve_fd, mode) ==
    CloseMultipleNowOrOnExec(r, preserve_fd + 1, preserve_fd, mode)

\* Lines 194 and 218: CloseMultipleNowOrOnExec(STDERR_FILENO + 1, preserve_fd).
PruneDescriptors(r, preserve_fd, mode) ==
    CloseMultipleNowOrOnExec(r, STDERR_FILENO + 1, preserve_fd, mode)

\* Lines 208-212: the descriptors added to the file actions as inherited.
InheritedFileDescriptors(preserve_fd) == StdFds \cup {preserve_fd}

\* The descriptors open in the new program image.  With
\* POSIX_SPAWN_CLOEXEC_DEFAULT (line 204) only the descriptors of the file
\* actions survive, whatever their close-on-exec flag; with null attributes
\* and file actions (lines 220-221), and across execve (line 197), the
\* descriptors without the close-on-exec flag survive.
ImageFds(v, r, preserve_fd) ==
    IF v = "apple"
    THEN r.fds \cap InheritedFileDescriptors(preserve_fd)
    ELSE r.fds \ r.cloexec

\* Lines 176-177: envp when given, else environ.
EnvForSpawn(envp, environ) == IF envp THEN "envp" ELSE environ

\* Lines 196 and 229: execvpe / posix_spawnp search PATH for a name without
\* a slash; execve / posix_spawn take argv[0] as a path.
Resolves(argv0, use_path) ==
    \/ argv0 = "/bin/true"
    \/ argv0 = "true" /\ use_path

----------------------------------------------------------------------------
\* The process table

NoProc ==
    [life |-> "absent", pc |-> "absent", ppid |-> "none", sid |-> "none",
     pgid |-> "none", fds |-> {}, cloexec |-> {}, image |-> "none",
     env |-> "none", status |-> -1, pid |-> "none"]

\* The Caller at the call: descriptors fds open, those of cloexec carrying
\* the close-on-exec flag, in the session of the shell that started it.
CallerAtCall(fds, cloexec) ==
    [life |-> "running", pc |-> "fork", ppid |-> Shell, sid |-> Shell,
     pgid |-> Caller, fds |-> fds, cloexec |-> cloexec, image |-> "caller",
     env |-> "environ", status |-> -1, pid |-> "none"]

\* fork(): the child is a copy of the parent, with the parent as its parent;
\* fork returns 0 in it (field pid is the local variable pid).
Forked(parent, pc) ==
    [proc[parent] EXCEPT !.ppid = parent, !.pc = pc, !.pid = "0"]

\* The next process to be created: the first one is the Intermediate, the
\* second the Detached process.
NewChild ==
    IF proc[Intermediate].life = "absent" THEN Intermediate ELSE Detached

\* Process self ends with wait status st; its children go to init.
Terminated(table, self, st) ==
    [q \in Procs |->
        IF q = self
        THEN [table[q] EXCEPT !.life = "zombie", !.pc = "terminated",
                              !.status = st]
        ELSE IF table[q].ppid = self /\ table[q].life \in {"running", "zombie"}
        THEN [table[q] EXCEPT !.ppid = InitProc]
        ELSE table[q]]

At(self, label) == proc[self].life = "running" /\ proc[self].pc = label

\* A call made by process self, whether it succeeded, and the process it
\* names, if any.
EventOn(self, op, ok, on) == [p |-> self, op |-> op, ok |-> ok, on |-> on]
Event(self, op, ok) == EventOn(self, op, ok, "none")

\* PLOG(FATAL) and a failed PCHECK: log, then abort().
Fatal(self, what, core) ==
    /\ proc' = Terminated(proc, self, SignaledStatus(SIGABRT, core))
    /\ log' = Append(log, Entry(self, "FATAL", what, 0, FALSE))
    /\ trace' = trace \o <<Event(self, what, FALSE),
                           Event(self, "abort", TRUE)>>

----------------------------------------------------------------------------
\* Initial states: one call of SpawnSubprocess about to start

ArgSets ==
    [argv0 : Argv0s, envp : BOOLEAN, preserve_fd : FDs \ StdFds,
     use_path : BOOLEAN, child_function : BOOLEAN]

Start(fds, cloexec) ==
    /\ args.preserve_fd \in fds
    /\ proc = [q \in Procs |->
                  IF q = Caller THEN CallerAtCall(fds, cloexec) ELSE NoProc]
    /\ result = "pending"
    /\ log = <<>>
    /\ trace = <<>>
    /\ previous = {}

\* Every build and every combination of arguments, called by a process that
\* has all its descriptors open and none marked close-on-exec.
Init ==
    /\ variant \in Variants
    /\ args \in ArgSets
    /\ Start(FDs, {})

\* Every build, any descriptor as preserve_fd, a bare name as argv[0], found
\* or not according to use_path; the Caller has all its descriptors open.
SequentialArgSets ==
    [argv0 : {"true"}, envp : {FALSE}, preserve_fd : FDs,
     use_path : BOOLEAN, child_function : {TRUE}]

InitSequential ==
    /\ variant \in Variants
    /\ args \in SequentialArgSets
    /\ Start(FDs, {})

\* Every build and every descriptor table with the standard streams open:
\* any further descriptors open, any of the open ones marked close-on-exec,
\* any open descriptor as preserve_fd; the call passes a child_function and
\* a bare name as argv[0], found or not according to use_path.
InitDescriptors ==
    /\ variant \in Variants
    /\ args \in [argv0 : {"true"}, envp : {FALSE}, preserve_fd : FDs,
                 use_path : BOOLEAN, child_function : {TRUE}]
    /\ \E fds \in SUBSET FDs : \E cloexec \in SUBSET fds :
          /\ StdFds \subseteq fds
          /\ Start(fds, cloexec)

----------------------------------------------------------------------------
\* Lines 139-143: pid_t pid = fork()

ForkOk(self) ==
    /\ At(self, "fork")
    /\ proc[NewChild].life = "absent"
    /\ proc' = [proc EXCEPT
                  ![self].pc = ParentAfterFork,
                  ![self].pid = NewChild,
                  ![NewChild] =
                      Forked(self, ChildAfterFork(args.child_function))]
    /\ trace' = Append(trace, Event(self, "fork", TRUE))
    /\ UNCHANGED <<variant, args, previous, result, log>>

ForkFail(self) ==
    /\ At(self, "fork")
    /\ proc' = [proc EXCEPT ![self].pc = AfterForkFailure,
                            ![self].pid = "-1"]
    /\ log' = Append(log, Entry(self, "ERROR", "fork", 0, FALSE))
    /\ result' = IF AfterForkFailure = "returned" THEN "false" ELSE result
    /\ trace' = Append(trace, Event(self, "fork", FALSE))
    /\ UNCHANGED <<variant, args, previous>>

\* Lines 148-150: child_function().  What it does is the caller's business:
\* it returns, never returns, or ends the process.
ChildFunctionReturns(self) ==
    /\ At(self, "child_function")
    /\ proc' = [proc EXCEPT ![self].pc = AfterChildFunction]
    /\ trace' = trace \o <<Event(self, "child_function", TRUE),
                           Event(self, "child_function returned", TRUE)>>
    /\ UNCHANGED <<variant, args, previous, result, log>>

ChildFunctionHangs(self) ==
    /\ At(self, "child_function")
    /\ proc' = [proc EXCEPT ![self].pc = "in child_function"]
    /\ trace' = Append(trace, Event(self, "child_function", TRUE))
    /\ UNCHANGED <<variant, args, previous, result, log>>

ChildFunctionExits(self) ==
    /\ At(self, "child_function")
    /\ \E code \in {EXIT_SUCCESS, 1} :
          proc' = Terminated(proc, self, ExitedStatus(code))
    /\ trace' = Append(trace, Event(self, "child_function", TRUE))
    /\ UNCHANGED <<variant, args, previous, result, log>>

\* Line 167 missing: the process stays in the session it was forked in.
SetsidOk_NoNewSession(self) ==
    /\ At(self, "setsid")
    /\ proc' = [proc EXCEPT ![self].pc = AfterSetsid(variant)]
    /\ trace' = Append(trace, Event(self, "setsid", TRUE))
    /\ UNCHANGED <<variant, args, previous, result, log>>

\* Line 167: PCHECK(setsid() != -1)
SetsidOk(self) ==
    /\ At(self, "setsid")
    /\ proc' = [proc EXCEPT ![self].sid = self, ![self].pgid = self,
                            ![self].pc = AfterSetsid(variant)]
    /\ trace' = Append(trace, Event(self, "setsid", TRUE))
    /\ UNCHANGED <<variant, args, previous, result, log>>

\* The PCHECK of line 167 missing: a failed setsid is ignored.
SetsidFail_Ignored(self) ==
    /\ At(self, "setsid")
    /\ proc' = [proc EXCEPT ![self].pc = AfterSetsid(variant)]
    /\ trace' = Append(trace, Event(self, "setsid", FALSE))
    /\ UNCHANGED <<variant, args, previous, result, log>>

SetsidFail(self) ==
    /\ At(self, "setsid")
    /\ \E core \in BOOLEAN : Fatal(self, "setsid", core)
    /\ UNCHANGED <<variant, args, previous, result>>

\* Lines 180-190 (the build for Android before API 28): the second fork
Fork2Ok(self) ==
    /\ At(self, "fork2")
    /\ proc[NewChild].life = "absent"
    /\ proc' = [proc EXCEPT
                  ![self].pc = ParentAfterFork2,
                  ![self].pid = NewChild,
                  ![NewChild] = Forked(self, ChildAfterFork2)]
    /\ trace' = Append(trace, Event(self, "fork", TRUE))
    /\ UNCHANGED <<variant, args, previous, result, log>>

Fork2Fail(self) ==
    /\ At(self, "fork2")
    /\ \E core \in BOOLEAN : Fatal(self, "fork", core)
    /\ UNCHANGED <<variant, args, previous, result>>

\* Lines 194 and 218: CloseMultipleNowOrOnExec(STDERR_FILENO + 1, preserve_fd)
Close(self) ==
    /\ At(self, "close")
    /\ \E mode \in {"now", "on exec"} :
          proc' = [proc EXCEPT
                      ![self] = [PruneDescriptors(proc[self],
                                                  args.preserve_fd, mode)
                                    EXCEPT !.pc = AfterClose(variant)]]
    /\ trace' = Append(trace, Event(self, "CloseMultipleNowOrOnExec", TRUE))
    /\ UNCHANGED <<variant, args, previous, result, log>>

\* The process that runs argv[0], made from the process r that loads it.
TargetImage(r) ==
    [r EXCEPT !.pc = "target", !.image = "target",
              !.fds = ImageFds(variant, r, args.preserve_fd),
              !.cloexec = {},
              !.env = EnvForSpawn(args.envp, r.env)]

\* Lines 229-239: posix_spawn / posix_spawnp returned 0 and argv[0] runs.
PosixSpawnOk(self) ==
    /\ At(self, "posix_spawn")
    /\ proc[NewChild].life = "absent"
    /\ Resolves(args.argv0, args.use_path)
    /\ proc' = [proc EXCEPT
                  ![self].pc = AfterPosixSpawn,
                  ![NewChild] = TargetImage(Forked(self, "posix_spawn"))]
    /\ trace' = Append(trace, Event(self, "posix_spawn", TRUE))
    /\ UNCHANGED <<variant, args, previous, result, log>>

\* PLOG(ERROR) in place of PLOG(FATAL): the error is logged and line 242
\* is reached.
PosixSpawnError_NotFatal(self) ==
    /\ At(self, "posix_spawn")
    /\ proc' = [proc EXCEPT ![self].pc = AfterPosixSpawn]
    /\ log' = Append(log, Entry(self, "ERROR", "posix_spawn", 0, FALSE))
    /\ trace' = Append(trace, Event(self, "posix_spawn", FALSE))
    /\ UNCHANGED <<variant, args, previous, result>>

\* posix_spawn returned an error: PLOG(FATAL), lines 237-238.
PosixSpawnError(self) ==
    /\ At(self, "posix_spawn")
    /\ \E core \in BOOLEAN : Fatal(self, "posix_spawn", core)
    /\ UNCHANGED <<variant, args, previous, result>>

\* posix_spawn returned 0 although argv[0] cannot be executed: a C library
\* that forks, execs in the child and reports a failed exec only by the
\* child's exit status 127 (the posix_spawn of Apple systems reports it by
\* its return value).
PosixSpawnLateFailure(self) ==
    /\ At(self, "posix_spawn")
    /\ variant # "apple"
    /\ proc[NewChild].life = "absent"
    /\ ~Resolves(args.argv0, args.use_path)
    /\ proc' = [proc EXCEPT
                  ![self].pc = AfterPosixSpawn,
                  ![NewChild] =
                      [Forked(self, "terminated") EXCEPT
                          !.life = "zombie",
                          !.status = ExitedStatus(SpawnChildExecFailed)]]
    /\ trace' = Append(trace, Event(self, "posix_spawn", TRUE))
    /\ UNCHANGED <<variant, args, previous, result, log>>

\* Lines 196-199: execve / execvpe in the grandchild
ExecveOk(self) ==
    /\ At(self, "execve")
    /\ Resolves(args.argv0, args.use_path)
    /\ proc' = [proc EXCEPT ![self] = TargetImage(proc[self])]
    /\ trace' = Append(trace, Event(self, "execve", TRUE))
    /\ UNCHANGED <<variant, args, previous, result, log>>

ExecveFail(self) ==
    /\ At(self, "execve")
    /\ \E core \in BOOLEAN : Fatal(self, "execve", core)
    /\ UNCHANGED <<variant, args, previous, result>>

\* Lines 189 and 242: _exit(EXIT_SUCCESS)
Exit(self) ==
    /\ At(self, "_exit")
    /\ proc' = Terminated(proc, self, ExitedStatus(EXIT_SUCCESS))
    /\ trace' = Append(trace, Event(self, "_exit", TRUE))
    /\ UNCHANGED <<variant, args, previous, result, log>>

\* waitpid(-1, ...): any child.
WaitTarget_AnyChild(self) == "-1"

\* Line 254: the first argument of waitpid is the local variable pid.
WaitTarget(self) == proc[self].pid

\* waitpid(pid, &status, WNOHANG): the call returns whether or not the child
\* has ended.
WaitpidOk_NoHang(self) ==
    /\ At(self, "waitpid")
    /\ proc' = [proc EXCEPT ![self].pc = "returned"]
    /\ result' = "true"
    /\ trace' = Append(trace,
                       EventOn(self, "waitpid", TRUE, WaitTarget(self)))
    /\ UNCHANGED <<variant, args, previous, log>>

\* Lines 253-277: waitpid(pid, &status, 0) delivered the status of the child
\* pid names; the Caller logs what the status calls for and returns true.
WaitpidOk(self) ==
    /\ At(self, "waitpid")
    /\ \E child \in Procs :
          /\ WaitTarget(self) \in {child, "-1"}
          /\ proc[child].life = "zombie"
          /\ proc[child].ppid = self
          /\ proc' = [proc EXCEPT ![self].pc = "returned",
                                  ![child].life = "reaped"]
          /\ log' = log \o StatusWarnings(self, proc[child].status)
    /\ result' = "true"
    /\ trace' = Append(trace,
                       EventOn(self, "waitpid", TRUE, WaitTarget(self)))
    /\ UNCHANGED <<variant, args, previous>>

\* Lines 255-258: waitpid returned -1 with an error other than EINTR; the
\* child, whatever its state, is not collected by this call.
WaitpidFail(self) ==
    /\ At(self, "waitpid")
    /\ proc' = [proc EXCEPT ![self].pc = "returned"]
    /\ log' = Append(log, Entry(self, "WARNING", "waitpid", 0, FALSE))
    /\ result' = WaitFailureResult
    /\ trace' = Append(trace,
                       EventOn(self, "waitpid", FALSE, WaitTarget(self)))
    /\ UNCHANGED <<variant, args, previous>>

\* The program argv[0] names ends by itself with status 0.
TargetExits(self) ==
    /\ At(self, "target")
    /\ proc' = Terminated(proc, self, ExitedStatus(EXIT_SUCCESS))
    /\ UNCHANGED <<variant, args, previous, result, log, trace>>

\* init collects an orphan that has ended.
InitReaps(self) ==
    /\ proc[self].life = "zombie"
    /\ proc[self].ppid = InitProc
    /\ proc' = [proc EXCEPT ![self].life = "reaped"]
    /\ UNCHANGED <<variant, args, previous, result, log, trace>>

Next ==
    \E self \in Procs :
        \/ ForkOk(self)
        \/ ForkFail(self)
        \/ ChildFunctionReturns(self)
        \/ ChildFunctionHangs(self)
        \/ ChildFunctionExits(self)
        \/ SetsidOk(self)
        \/ SetsidFail(self)
        \/ Fork2Ok(self)
        \/ Fork2Fail(self)
        \/ Close(self)
        \/ PosixSpawnOk(self)
        \/ PosixSpawnError(self)
        \/ PosixSpawnLateFailure(self)
        \/ ExecveOk(self)
        \/ ExecveFail(self)
        \/ Exit(self)
        \/ WaitpidOk(self)
        \/ WaitpidFail(self)
        \/ TargetExits(self)
        \/ InitReaps(self)

Spec == Init /\ [][Next]_vars

\* The steps of the program in process self, whatever their outcome.
ProgramStep(self) ==
    \/ ForkOk(self) \/ ForkFail(self)
    \/ ChildFunctionReturns(self) \/ ChildFunctionHangs(self)
    \/ ChildFunctionExits(self)
    \/ SetsidOk(self) \/ SetsidFail(self)
    \/ Fork2Ok(self) \/ Fork2Fail(self)
    \/ Close(self)
    \/ PosixSpawnOk(self) \/ PosixSpawnError(self)
    \/ PosixSpawnLateFailure(self)
    \/ ExecveOk(self) \/ ExecveFail(self)
    \/ Exit(self)

\* Scheduling: every process that can run its next step of lines 139-242
\* gets to run it; waitpid(pid, &status, 0) of line 254 returns once the
\* child has ended.  Nothing makes waitpid fail, makes the target program
\* end, or bounds the time init takes to collect an orphan.
Fairness ==
    /\ \A self \in Procs : WF_vars(ProgramStep(self))
    /\ WF_vars(WaitpidOk(Caller))

SpecFair == Init /\ [][Next]_vars /\ Fairness

\* Line 131: the Caller, back from one call, calls SpawnSubprocess again with
\* another preserve_fd.  Its descriptor table and session are as the earlier
\* call left them; log and trace start again for the new call, and the
\* processes of the earlier call have no part in it and leave the model.
Relaunch ==
    /\ proc[Caller].pc = "returned"
    /\ Cardinality(previous) + 1 < MaxCalls
    /\ \E a \in SequentialArgSets :
          /\ a.preserve_fd \notin previous \cup {args.preserve_fd}
          /\ args' = a
    /\ previous' = previous \cup {args.preserve_fd}
    /\ proc' = [q \in Procs |->
                  IF q = Caller
                  THEN CallerAtCall(proc[Caller].fds, proc[Caller].cloexec)
                  ELSE NoProc]
    /\ result' = "pending"
    /\ log' = <<>>
    /\ trace' = <<>>
    /\ UNCHANGED variant

NextSequential == Next \/ Relaunch

\* Lines 253-276 alone: the Caller is about to call waitpid and the
\* Intermediate has ended with any wait status, those of a stopped or
\* continued process included.
InitStatus ==
    /\ variant \in Variants
    /\ args \in [argv0 : {"/bin/true"}, envp : {FALSE},
                 preserve_fd : {MaxFd}, use_path : {FALSE},
                 child_function : {FALSE}]
    /\ \E status \in 0..MaxStatus :
          proc = [q \in Procs |->
                     IF q = Caller
                     THEN [CallerAtCall(FDs, {}) EXCEPT
                               !.pc = "waitpid", !.pid = Intermediate]
                     ELSE IF q = Intermediate
                     THEN [CallerAtCall(FDs, {}) EXCEPT
                               !.ppid = Caller, !.pid = "0",
                               !.life = "zombie", !.pc = "terminated",
                               !.status = status]
                     ELSE NoProc]
    /\ result = "pending"
    /\ log = <<>>
    /\ trace = <<Event(Caller, "fork", TRUE)>>
    /\ previous = {}

NextStatus == WaitpidOk(Caller) \/ WaitpidFail(Caller)

SpecStatus == InitStatus /\ [][NextStatus]_vars

SpecSequential == InitSequential /\ [][NextSequential]_vars

SpecDescriptors == InitDescriptors /\ [][Next]_vars

----------------------------------------------------------------------------
\* Vocabulary of the properties

Returned == proc[Caller].pc = "returned"

Exists(p) == proc[p].life # "absent"

\* The calls of op made so far, as positions of the trace.
Calls(op) == {i \in 1..Len(trace) : trace[i].op = op}
CallsBy(p, op) == {i \in Calls(op) : trace[i].p = p}

Did(p, op, ok) == \E i \in CallsBy(p, op) : trace[i].ok = ok

InitialForkFailed == Did(Caller, "fork", FALSE)
InitialForkSucceeded == Did(Caller, "fork", TRUE)
WaitFailed == Did(Caller, "waitpid", FALSE)
WaitSucceeded == Did(Caller, "waitpid", TRUE)

\* What the Caller logged as a warning.
CallerWarnings ==
    {i \in 1..Len(log) : log[i].p = Caller /\ log[i].severity = "WARNING"}

\* The warnings of lines 261-274, about how the Intermediate ended.
TerminationWarnings ==
    {i \in CallerWarnings :
        log[i].what \in {"terminated by signal", "unknown termination",
                         "exited with code"}}

TargetMissing == ~Resolves(args.argv0, args.use_path)

----------------------------------------------------------------------------
\* C1: SpawnSubprocess returns false if and only if the initial fork fails;
\* whatever else fails (setsid, posix_spawn or execve, waitpid) and however
\* the Intermediate ends, it returns true.
C1_FalseIffInitialForkFails ==
    Returned =>
        /\ result \in {"true", "false"}
        /\ result = "false" <=> InitialForkFailed

\* The call has returned true although waitpid failed and the Intermediate
\* was killed by a signal.
C1_Witness ==
    /\ Returned
    /\ result = "true"
    /\ WaitFailed
    /\ Exists(Intermediate)
    /\ WIFSIGNALED(proc[Intermediate].status)

----------------------------------------------------------------------------
\* C2 as claimed: in every state after the call has returned, no ended and
\* uncollected Intermediate is left as a child of the Caller.
C2_NoZombieAfterReturn ==
    Returned =>
        ~(proc[Intermediate].life = "zombie"
            /\ proc[Intermediate].ppid = Caller)

\* C2 as amended: after the call has returned from a waitpid that succeeded,
\* the Intermediate has been collected by that waitpid and is no zombie (a
\* failed waitpid collects nothing, and the Intermediate may then stay a
\* zombie).
C2_ReapedWhenWaitSucceeds ==
    (Returned /\ InitialForkSucceeded /\ ~WaitFailed) =>
        /\ WaitSucceeded
        /\ proc[Intermediate].life = "reaped"

\* The call has returned after collecting the Intermediate.
C2_Witness ==
    /\ Returned
    /\ WaitSucceeded
    /\ proc[Intermediate].life = "reaped"

----------------------------------------------------------------------------
\* C3: the Caller is never the parent of the Detached process; its parent is
\* the Intermediate, which created it, while the Intermediate runs, and init
\* from the moment the Intermediate has ended, in every build.
C3_DetachedParent ==
    Exists(Detached) =>
        /\ proc[Detached].ppid # Caller
        /\ proc[Intermediate].life = "running"
              => proc[Detached].ppid = Intermediate
        /\ proc[Intermediate].life \in {"zombie", "reaped"}
              => proc[Detached].ppid = InitProc

\* The call has returned, the Intermediate is gone, and the Detached process
\* runs argv[0] as a child of init.
C3_Witness ==
    /\ Returned
    /\ proc[Intermediate].life = "reaped"
    /\ proc[Detached].life = "running"
    /\ proc[Detached].image = "target"
    /\ proc[Detached].ppid = InitProc

----------------------------------------------------------------------------
\* C4: when argv[0] is loaded in the Detached process, every descriptor the
\* Caller had open at the call is closed there unless it is one of 0..2 or
\* preserve_fd, and the Caller's descriptors 0..2 and preserve_fd are open
\* there, for every descriptor table of the Caller.
C4_DescriptorPolicy ==
    proc[Detached].image = "target" =>
        \A fd \in proc[Caller].fds :
            fd \in proc[Detached].fds
                <=> fd \in StdFds \cup {args.preserve_fd}

----------------------------------------------------------------------------
\* C5: setsid is called by the Intermediate and never by the Detached
\* process, which therefore is never the leader of its session: its session
\* is the one the Intermediate leads, in every build.
C5_DetachedNeverSessionLeader ==
    /\ CallsBy(Detached, "setsid") = {}
    /\ Exists(Detached) =>
          /\ proc[Detached].sid # Detached
          /\ proc[Detached].sid = Intermediate
          /\ Did(Intermediate, "setsid", TRUE)

\* The grandchild of the double-fork build runs argv[0] in the session of
\* the Intermediate.
C5_Witness ==
    /\ variant = "android"
    /\ proc[Detached].image = "target"
    /\ proc[Detached].sid = Intermediate

----------------------------------------------------------------------------
\* C6: the session of the Detached process, whenever there is one, is not
\* the session of the Caller, and the Caller stays in the session it was
\* called in.
C6_SessionDiffersFromCaller ==
    /\ proc[Caller].sid = Shell
    /\ Exists(Detached) => proc[Detached].sid # proc[Caller].sid

\* After the return the Detached process runs in another session than the
\* Caller.
C6_Witness ==
    /\ Returned
    /\ proc[Detached].life = "running"
    /\ proc[Detached].sid # Shell
    /\ proc[Caller].sid = Shell

----------------------------------------------------------------------------
\* C7: a child_function that is passed is called exactly once when the first
\* fork succeeds, by the Intermediate and by no other process, and not at
\* all when that fork fails; it has returned before setsid is called, and
\* setsid is called before any descriptor is pruned and before any further
\* fork, posix_spawn or execve.
HookCalls == Calls("child_function")

SpawnSteps ==
    Calls("CloseMultipleNowOrOnExec") \cup Calls("posix_spawn")
        \cup Calls("execve") \cup (Calls("fork") \ CallsBy(Caller, "fork"))

C7_HookOnceBeforeSetsid ==
    /\ \A i \in HookCalls : trace[i].p = Intermediate
    /\ Cardinality(HookCalls) <= 1
    /\ (InitialForkFailed \/ ~args.child_function) => HookCalls = {}
    /\ ( /\ args.child_function
         /\ Exists(Intermediate)
         /\ proc[Intermediate].pc # "child_function" )
          => Cardinality(HookCalls) = 1
    /\ \A i \in Calls("setsid") :
          args.child_function =>
              \E j \in CallsBy(Intermediate, "child_function returned") :
                  j < i
    /\ \A i \in SpawnSteps :
          \E j \in CallsBy(Intermediate, "setsid") : j < i

\* child_function was called once and returned, then setsid, then
\* posix_spawn.
C7_Witness ==
    /\ args.child_function
    /\ Cardinality(HookCalls) = 1
    /\ Did(Intermediate, "setsid", TRUE)
    /\ Did(Intermediate, "posix_spawn", TRUE)

----------------------------------------------------------------------------
\* C8 as claimed, read in its favour (the Caller's waitpid succeeded): in
\* every build, when argv[0] cannot be executed and posix_spawn or execve
\* failed, the call returns true and the Caller logs a warning that the
\* Intermediate was killed by a signal or exited with a nonzero code.
SpawnFailed ==
    \E p \in Procs : Did(p, "posix_spawn", FALSE) \/ Did(p, "execve", FALSE)

C8_MissingTargetAlwaysWarned ==
    (Returned /\ WaitSucceeded /\ TargetMissing /\ SpawnFailed) =>
        /\ result = "true"
        /\ \E i \in TerminationWarnings :
              log[i].what \in {"terminated by signal", "exited with code"}

\* C8 as amended: when posix_spawn returns an error to the Intermediate, the
\* Intermediate aborts, and a Caller whose waitpid succeeds returns true and
\* logs a warning that the Intermediate was killed by a signal.  When the
\* failure happens in a descendant instead (the execve of the grandchild in
\* the double-fork build, or the child of a posix_spawn that returned 0), the
\* Intermediate exits with EXIT_SUCCESS and the Caller, returning true, logs
\* no warning about its termination.
C8_SpawnErrorWarnedDescendantFailureSilent ==
    (Returned /\ WaitSucceeded) =>
        /\ result = "true"
        /\ Did(Intermediate, "posix_spawn", FALSE) =>
              \E i \in TerminationWarnings :
                  /\ log[i].what = "terminated by signal"
                  /\ log[i].value = SIGABRT
        /\ (TargetMissing /\ Did(Intermediate, "_exit", TRUE)) =>
              TerminationWarnings = {}

\* posix_spawn failed for a missing argv[0]; the Caller has collected the
\* Intermediate and returned.
C8_Witness ==
    /\ Returned
    /\ WaitSucceeded
    /\ TargetMissing
    /\ Did(Intermediate, "posix_spawn", FALSE)
    /\ TerminationWarnings # {}

----------------------------------------------------------------------------
\* C9: when the first fork fails the call returns false at once and nothing
\* else happens: there is no Intermediate and no Detached process, no
\* child_function, setsid, spawn or waitpid call, and no warning.
C9_ForkFailureStopsEverything ==
    InitialForkFailed =>
        /\ Returned
        /\ result = "false"
        /\ trace = <<Event(Caller, "fork", FALSE)>>
        /\ ~Exists(Intermediate)
        /\ ~Exists(Detached)
        /\ CallerWarnings = {}

\* The first fork has failed.
C9_Witness ==
    /\ InitialForkFailed
    /\ result = "false"

----------------------------------------------------------------------------
\* C10 as claimed: whenever argv[0] names an executable that runs and exits
\* with status 0, the call returns true and no warning is logged.
TargetExitedWithSuccess ==
    /\ proc[Detached].image = "target"
    /\ proc[Detached].life \in {"zombie", "reaped"}
    /\ proc[Detached].status = ExitedStatus(EXIT_SUCCESS)

C10_GoodTargetNeverWarned ==
    (Returned /\ TargetExitedWithSuccess) =>
        /\ result = "true"
        /\ CallerWarnings = {}

\* C10 as amended: when argv[0] names an executable that is run (and exits
\* with status 0) and the Caller's waitpid succeeds, the call returns true
\* and nothing is logged; when the waitpid fails the call returns true and
\* logs the warning "waitpid".
C10_GoodTargetNoWarningUnlessWaitFails ==
    (Returned /\ proc[Detached].image = "target") =>
        /\ result = "true"
        /\ WaitSucceeded => log = <<>>
        /\ WaitFailed => log = <<Entry(Caller, "WARNING", "waitpid", 0, FALSE)>>

\* argv[0] ran and exited with status 0, the waitpid succeeded, and the call
\* has returned.
C10_Witness ==
    /\ Returned
    /\ WaitSucceeded
    /\ TargetExitedWithSuccess

----------------------------------------------------------------------------
\* C11: when the first fork succeeds the Caller waits exactly once, the wait
\* names the pid of the Intermediate and no other process, and no wait of
\* the Caller names or collects the Detached process (which only init
\* collects).
Waits == Calls("waitpid")

C11_OneWaitOnIntermediate ==
    /\ \A i \in Waits : trace[i].p = Caller /\ trace[i].on = Intermediate
    /\ Cardinality(Waits) <= 1
    /\ (InitialForkSucceeded /\ Returned) => Cardinality(Waits) = 1
    /\ ~Returned => Waits = {}
    /\ InitialForkFailed => Waits = {}
    /\ proc[Detached].life = "reaped" => proc[Detached].ppid = InitProc

\* The Caller has waited once, for the Intermediate, and returned; the
\* Detached process has ended and init has collected it.
C11_Witness ==
    /\ Returned
    /\ Cardinality(Waits) = 1
    /\ proc[Intermediate].life = "reaped"
    /\ proc[Detached].life = "reaped"
    /\ proc[Detached].image = "target"

----------------------------------------------------------------------------
\* C12 (as stated): in the second of two calls with different preserve_fd,
\* the target program is loaded without the descriptor the first call
\* preserved.
C12_PriorDescriptorNeverOpen ==
    (proc[Detached].image = "target")
        => proc[Detached].fds \cap previous = {}

\* C12 (amended): in a later call, the target program is loaded without any
\* descriptor an earlier call preserved, the standard streams 0..2 excepted,
\* which every call carries forward.
C12_PriorDescriptorClosedUnlessStandard ==
    (proc[Detached].image = "target")
        => proc[Detached].fds \cap previous \subseteq StdFds

\* The second call has loaded its target; the first call preserved a
\* descriptor above 2 that the Caller still has open.
C12_Witness ==
    /\ proc[Detached].image = "target"
    /\ previous \ StdFds # {}
    /\ previous \subseteq proc[Caller].fds
    /\ args.preserve_fd \in proc[Detached].fds

----------------------------------------------------------------------------
\* C13: the Caller puts the result of the wait into exactly one outcome, in
\* the order WaitFailed, Signaled, Unknown, ExitedFailure, ExitedSuccess, and
\* logs exactly one warning, the one of that outcome, for every outcome but
\* ExitedSuccess, for which it logs nothing.

\* The outcome of a raw wait status, read off its bits: the low seven bits
\* hold the signal (127: stopped or continued), the second byte the code.
TerminationOutcome(waitFailed, status) ==
    IF waitFailed THEN "WaitFailed"
    ELSE IF status % 128 \in 1..126 THEN "Signaled"
    ELSE IF status % 128 = 127 THEN "Unknown"
    ELSE IF (status \div 256) % 256 # 0 THEN "ExitedFailure"
    ELSE "ExitedSuccess"

WarningOf(outcome) ==
    CASE outcome = "WaitFailed" -> "waitpid"
      [] outcome = "Signaled" -> "terminated by signal"
      [] outcome = "Unknown" -> "unknown termination"
      [] outcome = "ExitedFailure" -> "exited with code"
      [] OTHER -> "none"

C13_OneOutcomeOneWarning ==
    Returned =>
        LET outcome == TerminationOutcome(WaitFailed,
                                          proc[Intermediate].status)
        IN  /\ result = "true"
            /\ IF outcome = "ExitedSuccess"
               THEN log = <<>>
               ELSE /\ Len(log) = 1
                    /\ log[1].p = Caller
                    /\ log[1].severity = "WARNING"
                    /\ log[1].what = WarningOf(outcome)

\* The wait delivered the status of a process that was neither signaled nor
\* exited, with a non-zero second byte: the one warning is the one of Unknown.
C13_Witness ==
    /\ Returned
    /\ WaitSucceeded
    /\ proc[Intermediate].status % 128 = 127
    /\ proc[Intermediate].status \div 256 # 0
    /\ Len(log) = 1
    /\ log[1].what = "unknown termination"

----------------------------------------------------------------------------
\* C14: for every descriptor table of the Intermediate and every preserve_fd,
\* the inherit list of lines 201-215 and the pruning of lines 194 / 218
\* followed by exec give the Detached process the same open descriptors: the
\* descriptors a build's target is loaded with are those the mechanism of
\* the other builds yields from the same table.

\* Lines 201-215 applied to the descriptor table of process record r.
DeclarativeDescriptors(r, preserve_fd) == ImageFds("apple", r, preserve_fd)

\* Lines 194-197 and 218-229 applied to the descriptor table of record r.
ImperativeDescriptors(r, preserve_fd) ==
    ImageFds("posix", PruneDescriptors(r, preserve_fd, "now"), preserve_fd)

C14_MechanismsAgree ==
    (proc[Detached].image = "target") =>
        proc[Detached].fds =
            IF variant = "apple"
            THEN ImperativeDescriptors(proc[Caller], args.preserve_fd)
            ELSE DeclarativeDescriptors(proc[Caller], args.preserve_fd)

----------------------------------------------------------------------------
\* The calls of op by process p that succeeded, as positions of the trace.
Succeeded(p, op) == {i \in CallsBy(p, op) : trace[i].ok}

\* C15 (as stated): in every build the Intermediate has called setsid and the
\* target program has been loaded (by posix_spawn or by execve) before the
\* Intermediate ends with _exit(EXIT_SUCCESS).
C15_TargetLoadedBeforeExit ==
    \A e \in CallsBy(Intermediate, "_exit") :
        /\ \E d \in Succeeded(Intermediate, "setsid") : d < e
        /\ \A x \in Succeeded(Intermediate, "posix_spawn")
                      \cup Succeeded(Detached, "execve") : x < e

\* C15 (amended): before the Intermediate ends with _exit(EXIT_SUCCESS) it
\* has called setsid and has created the Detached process, by a posix_spawn
\* that returned 0 or, in the build of lines 179-199, by the second fork (the
\* execve of the target then follows in the Detached process, in no order
\* with the exit); and waitpid succeeds in the Caller only once the
\* Intermediate has ended.
C15_DetachAndCreateBeforeExit ==
    /\ [](\A e \in CallsBy(Intermediate, "_exit") :
             /\ \E d \in Succeeded(Intermediate, "setsid") : d < e
             /\ \E c \in Succeeded(Intermediate,
                                   IF variant = "android"
                                   THEN "fork" ELSE "posix_spawn") : c < e
             /\ Succeeded(Intermediate, "posix_spawn")
                   = CallsBy(Intermediate, "posix_spawn")
             /\ \A x \in CallsBy(Intermediate, "posix_spawn") : x < e)
    /\ [][(~WaitSucceeded /\ WaitSucceeded')
             => /\ proc[Intermediate].life = "zombie"
                /\ proc[Intermediate].pc = "terminated"]_vars

\* The build of lines 179-199: the Intermediate has exited with success
\* after setsid and the second fork, the Caller's waitpid has succeeded, and
\* the Detached process has loaded the target after that.
C15_Witness ==
    /\ variant = "android"
    /\ WaitSucceeded
    /\ \E e \in CallsBy(Intermediate, "_exit") :
       \E w \in Succeeded(Caller, "waitpid") :
       \E x \in Succeeded(Detached, "execve") : e < w /\ w < x

----------------------------------------------------------------------------
\* The child_function of line 149 has been entered and never returns.
HookHangs == proc[Intermediate].pc = "in child_function"

\* C16 (as stated): once fork has returned in the Caller, the wait completes
\* and SpawnSubprocess returns, a hang of child_function notwithstanding.
C16_WaitCompletesAfterFork == InitialForkSucceeded ~> Returned

\* C16 (amended): a hang of child_function happens in the Intermediate after
\* fork has returned in the Caller, and it blocks the Caller's waitpid: while
\* the hang lasts no waitpid succeeds, and the Caller returns only if its
\* waitpid fails.  Once the Intermediate has ended, the Caller returns.
C16_HangBlocksWaitNotFork ==
    /\ [](HookHangs =>
             /\ InitialForkSucceeded
             /\ ~WaitSucceeded
             /\ Returned => WaitFailed)
    /\ [](proc[Intermediate].life = "running" => ~WaitSucceeded)
    /\ (proc[Intermediate].life = "zombie") ~> Returned

\* child_function hangs in the Intermediate while the Caller, whose fork has
\* returned, is in waitpid.
C16_Witness ==
    /\ HookHangs
    /\ At(Caller, "waitpid")
    /\ InitialForkSucceeded

----------------------------------------------------------------------------
\* C19: under fair scheduling, when the first fork has succeeded and
\* child_function does not hang, SpawnSubprocess returns, whether or not the
\* Detached process ever ends (no fairness makes the target end).
C19_ReturnsWithoutDetachedEnding ==
    InitialForkSucceeded ~> (Returned \/ HookHangs)

\* The Caller is back from a successful wait while the target program is
\* still running in the Detached process, which nobody has waited for.
C19_Witness ==
    /\ Returned
    /\ result = "true"
    /\ WaitSucceeded
    /\ proc[Detached].life = "running"
    /\ proc[Detached].image = "target"
    /\ Waits \subseteq CallsBy(Caller, "waitpid")

----------------------------------------------------------------------------
\* The process creations so far: the forks and posix_spawns that succeeded.
Creations == {i \in Calls("fork") \cup Calls("posix_spawn") : trace[i].ok}

\* A call in which nothing failed, over and with its target loaded.
FailureFree ==
    /\ Returned
    /\ WaitSucceeded
    /\ \A i \in 1..Len(trace) : trace[i].ok
    /\ proc[Detached].image = "target"

\* C17 (as stated): a call without failure creates processes at two points
\* in the builds that use posix_spawn and at three in the build of lines
\* 179-199.
C17_ThreeCreationsInDoubleFork ==
    FailureFree =>
        Cardinality(Creations) = IF variant = "android" THEN 3 ELSE 2

\* C17 (amended): in every build a call without failure creates processes at
\* exactly two points, the fork of line 139 in the Caller and, in the
\* Intermediate, posix_spawn or the fork of line 180; the process that exits
\* at once is the Intermediate, the child of the second creation is the
\* Detached process, and there is no further process: one process per role.
C17_TwoCreationsEveryBuild ==
    /\ Cardinality(Creations) <= 2
    /\ Cardinality({p \in Procs : Exists(p)}) = 1 + Cardinality(Creations)
    /\ \A i \in Creations :
          /\ trace[i].p \in {Caller, Intermediate}
          /\ \A k \in Creations : trace[k].p = trace[i].p => k = i
    /\ Calls("_exit") \subseteq CallsBy(Intermediate, "_exit")
    /\ \A p \in Procs : proc[p].image = "target" => p = Detached
    /\ FailureFree =>
          /\ Cardinality(Creations) = 2
          /\ Cardinality(CallsBy(Intermediate, "_exit")) = 1
          /\ \A p \in Procs : Exists(p)

\* The build of lines 179-199, nothing failed: two forks, the Intermediate
\* has exited and the child of the second fork runs the target.
C17_Witness ==
    /\ variant = "android"
    /\ FailureFree
    /\ Cardinality(Succeeded(Caller, "fork")) = 1
    /\ Cardinality(Succeeded(Intermediate, "fork")) = 1
    /\ Succeeded(Detached, "execve") # {}

----------------------------------------------------------------------------
SetsidFailed == Did(Intermediate, "setsid", FALSE)

\* C18 (as stated): when setsid fails the Intermediate aborts before pruning,
\* forking or spawning, no Detached process exists, and the Caller, once
\* returned, has logged the Intermediate's death by signal as a warning and
\* returned true.
C18_SetsidFailureAlwaysReported ==
    SetsidFailed =>
        /\ ~Exists(Detached)
        /\ proc[Intermediate].pc = "terminated"
        /\ Returned =>
              /\ result = "true"
              /\ \E i \in TerminationWarnings :
                     log[i].what = "terminated by signal"

\* C18 (amended): when setsid fails the Intermediate aborts (SIGABRT) at
\* once: it has not pruned, forked or spawned, and no Detached process
\* exists, ever.  The Caller returns true; when its waitpid succeeds it logs
\* exactly one warning, that the Intermediate was terminated by SIGABRT;
\* when its waitpid fails, its only warning is the one about waitpid.
C18_SetsidFailureReportedWhenWaited ==
    SetsidFailed =>
        /\ ~Exists(Detached)
        /\ proc[Intermediate].pc = "terminated"
        /\ WIFSIGNALED(proc[Intermediate].status)
        /\ WTERMSIG(proc[Intermediate].status) = SIGABRT
        /\ \A op \in {"CloseMultipleNowOrOnExec", "fork", "posix_spawn",
                      "execve", "_exit"} : CallsBy(Intermediate, op) = {}
        /\ trace[Len(trace)].p = Intermediate =>
              trace[Len(trace)] = Event(Intermediate, "abort", TRUE)
        /\ Returned =>
              /\ result = "true"
              /\ Cardinality(CallerWarnings) = 1
              /\ \A i \in CallerWarnings :
                    IF WaitSucceeded
                    THEN /\ log[i].what = "terminated by signal"
                         /\ log[i].value = SIGABRT
                    ELSE log[i].what = "waitpid"

\* setsid failed, and the Caller has collected the aborted Intermediate and
\* logged its warning.
C18_Witness ==
    /\ SetsidFailed
    /\ Returned
    /\ WaitSucceeded
    /\ proc[Intermediate].life = "reaped"
    /\ \E i \in TerminationWarnings : log[i].value = SIGABRT

----------------------------------------------------------------------------
\* C20: no step of a call, successful or not, changes the Caller's own
\* state: its open descriptors and their close-on-exec flags, its session,
\* process group, parent, environment and program stay as they were at the
\* call; setsid, the pruning of descriptors and the loading of the target
\* are never executed by the Caller.
CallerState ==
    [fds |-> proc[Caller].fds, cloexec |-> proc[Caller].cloexec,
     sid |-> proc[Caller].sid, pgid |-> proc[Caller].pgid,
     ppid |-> proc[Caller].ppid, env |-> proc[Caller].env,
     image |-> proc[Caller].image, life |-> proc[Caller].life]

C20_CallerStateUnchanged ==
    /\ [][CallerState' = CallerState]_vars
    /\ [](\A op \in {"setsid", "CloseMultipleNowOrOnExec", "posix_spawn",
                     "execve", "child_function", "_exit", "abort"} :
             CallsBy(Caller, op) = {})

\* The Caller is back, with descriptors open that the Detached process,
\* running the target in another session, no longer has.
C20_Witness ==
    /\ Returned
    /\ proc[Detached].image = "target"
    /\ proc[Caller].fds \ proc[Detached].fds # {}
    /\ args.preserve_fd \in proc[Caller].fds \cap proc[Detached].fds
    /\ proc[Detached].sid # proc[Caller].sid
    /\ proc[Caller].sid = Shell

====
